---- MODULE Spec2Model ----
(***************************************************************************)
(* Delegate vote transaction of WaykiChain: CDelegateVoteTx::CheckTx and   *)
(* CDelegateVoteTx::ExecuteTx (src/tx/delegatetx.cpp), over an account     *)
(* store, a delegate store (per-voter vote lists and the ranking index)    *)
(* and a receipt store.                                                    *)
(***************************************************************************)
EXTENDS Integers, Sequences, FiniteSets, TLC

VARIABLES
    accounts,       \* cw.accountCache: key id -> CAccount
    candVotes,      \* cw.delegateCache: voter regid -> its candidate vote list
    delegateIndex,  \* cw.delegateCache: the (votes, regid) entries
    receipts,       \* cw.txReceiptCache: transaction hash -> receipts
    height,         \* height of the block being applied
    last,           \* the last call: its transaction, outcome and the state before
    checks          \* the calls of CheckTx in progress, one per validation task

vars == <<accounts, candVotes, delegateIndex, receipts, height, last, checks>>

(***************************************************************************)
(* Bounds of the model.                                                    *)
(***************************************************************************)
\* blocks the chain grows to; one vote transaction is executed per block
MaxHeight == 2
\* free balance every account starts with
InitBalance == 2

(***************************************************************************)
(* Protocol constants.  The configured values are scaled down: what the   *)
(* code does with them depends on comparisons only.                        *)
(***************************************************************************)
\* IniCfg().GetMaxVoteCandidateNum()
MaxVoteCandidateNum == 2
\* GetBaseCoinMaxMoney()
MaxCoinMoney == 4
\* smallest fee IMPLEMENT_CHECK_TX_FEE accepts
MinTxFee == 1
\* feature fork versions and the heights they start at
MAJOR_VER_R1 == 10000
MAJOR_VER_R2 == 20000
MAJOR_VER_R3 == 30000
R2ForkHeight == 3
R3ForkHeight == 4

\* GetFeatureForkVersion(height)
GetFeatureForkVersion(h) ==
    IF h >= R3ForkHeight THEN MAJOR_VER_R3
    ELSE IF h >= R2ForkHeight THEN MAJOR_VER_R2
    ELSE MAJOR_VER_R1

(***************************************************************************)
(* Identifiers.  A CUserID is a tagged union; CheckTx accepts the CPubKey  *)
(* and CRegID alternatives only.                                           *)
(***************************************************************************)
KeyIds == {"k1", "k2", "k3"}
PubKeys == {"pk1", "pk2", "pk3", "pk0", "pkBad"}
NoPubKey == "nopk"
EmptyRegId == <<0, 0>>
NoAccount == "noaccount"

\* CPubKey::GetKeyId: the address derived from a public key
GetKeyId(pk) ==
    CASE pk = "pk1" -> "k1"
      [] pk = "pk2" -> "k2"
      [] pk = "pk3" -> "k3"
      [] pk = "pk0" -> "k0"
      [] OTHER -> "kBad"

\* CPubKey::IsFullyValid: the key decodes to a curve point
IsFullyValid(pk) == pk \in {"pk1", "pk2", "pk3", "pk0"}

PubKeyUid(pk) == [type |-> "pubkey", pk |-> pk, regid |-> EmptyRegId]
RegIdUid(r) == [type |-> "regid", pk |-> NoPubKey, regid |-> r]
NullUid == [type |-> "null", pk |-> NoPubKey, regid |-> EmptyRegId]

\* CAccountDBCache::GetAccount(uid, account): the key of the account found
GetAccount(accts, uid) ==
    IF uid.type = "pubkey"
    THEN IF GetKeyId(uid.pk) \in DOMAIN accts THEN GetKeyId(uid.pk) ELSE NoAccount
    ELSE IF uid.type = "regid" /\ uid.regid # EmptyRegId
              /\ \E k \in DOMAIN accts : accts[k].regid = uid.regid
         THEN CHOOSE k \in DOMAIN accts : accts[k].regid = uid.regid
         ELSE NoAccount

\* CAccount::HaveOwnerPubKey
HaveOwnerPubKey(account) == account.owner_pubkey # NoPubKey

(***************************************************************************)
(* Validation outcome: CValidationState after state.DoS(score, ..., code), *)
(* with the check that returned.                                           *)
(***************************************************************************)
NoReason == "no-reason"
Accepted == [ok |-> TRUE, reason |-> NoReason, score |-> 0, at |-> "accepted"]
DoS(score, reason, at) == [ok |-> FALSE, reason |-> reason, score |-> score, at |-> at]
\* a bare `return ERRORMSG(...)`: false without a call of state.DoS
ErrorMsg(at) == [ok |-> FALSE, reason |-> NoReason, score |-> 0, at |-> at]

STAKE == "ADD_BCOIN"
UNSTAKE == "MINUS_BCOIN"

(***************************************************************************)
(* CDelegateVoteTx::CheckTx                                                *)
(***************************************************************************)
\* IMPLEMENT_CHECK_TX_FEE
CheckTxFee(tx) == tx.llFees >= MinTxFee /\ tx.llFees <= MaxCoinMoney

\* IMPLEMENT_CHECK_TX_REGID_OR_PUBKEY
IsRegIdOrPubKey(uid) == uid.type \in {"regid", "pubkey"}

\* VotesOutOfRange testing for the empty list only
VotesOutOfRangeEmptyOnly(tx) == Len(tx.candidateVotes) = 0

\* the size test on candidateVotes
VotesOutOfRange(tx) ==
    Len(tx.candidateVotes) = 0 \/ Len(tx.candidateVotes) > MaxVoteCandidateNum

\* the validity test on a sender given as a public key
BadSenderPubKey(tx) == tx.txUid.type = "pubkey" /\ ~IsFullyValid(tx.txUid.pk)

\* the key the signature is verified against
SignaturePubKey(accts, tx) ==
    IF tx.txUid.type = "pubkey" THEN tx.txUid.pk
    ELSE accts[GetAccount(accts, tx.txUid)].owner_pubkey

\* IMPLEMENT_CHECK_TX_SIGNATURE: the signature was made with the key given
VerifySignature(signature, pubKey) == pubKey # NoPubKey /\ signature = pubKey

\* the height test that turns the signature and registration checks on
StrongAuth(h) == GetFeatureForkVersion(h) = MAJOR_VER_R2

\* VoteOutOfRange testing the upper limit only
VoteOutOfRangeUpperOnly(vote) == MaxCoinMoney < vote.votedBcoins

\* the range test on one vote
VoteOutOfRange(vote) == 0 >= vote.votedBcoins \/ MaxCoinMoney < vote.votedBcoins

\* VoteKeyId collecting the identifiers as given, not the key ids they resolve to
VoteKeyIdByUid(accts, vote) == vote.candidateUid

\* the key a candidate vote adds to voteKeyIds
VoteKeyId(accts, vote) ==
    IF vote.candidateUid.type = "pubkey"
    THEN GetKeyId(vote.candidateUid.pk)
    ELSE accts[GetAccount(accts, vote.candidateUid)].keyid

RECURSIVE CheckVotes(_, _, _, _, _)
\* the loop over candidateVotes, from entry k, and the duplication test after it
CheckVotes(h, accts, tx, k, voteKeyIds) ==
    IF k > Len(tx.candidateVotes)
    THEN IF Cardinality(voteKeyIds) # Len(tx.candidateVotes)
         THEN DoS(100, "duplication-candidate-error", "duplication")
         ELSE Accepted
    ELSE LET vote == tx.candidateVotes[k] IN
         IF ~IsRegIdOrPubKey(vote.candidateUid)
         THEN DoS(100, "uid-type-error", "candidate-uid")
         ELSE IF VoteOutOfRange(vote)
         THEN ErrorMsg("candidate-votes")
         ELSE IF GetAccount(accts, vote.candidateUid) = NoAccount
         THEN DoS(100, "bad-read-accountdb", "candidate-account")
         ELSE IF StrongAuth(h)
                 /\ ~HaveOwnerPubKey(accts[GetAccount(accts, vote.candidateUid)])
         THEN DoS(100, "bad-read-accountdb", "candidate-unregistered")
         ELSE CheckVotes(h, accts, tx, k + 1,
                         voteKeyIds \cup {VoteKeyId(accts, vote)})

\* CheckTx with the sender's key validated before the list size is tested
CheckTxPubKeyFirst(h, accts, tx) ==
    IF ~CheckTxFee(tx) THEN DoS(100, "bad-tx-fee", "fee")
    ELSE IF ~IsRegIdOrPubKey(tx.txUid) THEN DoS(100, "uid-type-error", "sender-uid")
    ELSE IF BadSenderPubKey(tx) THEN DoS(100, "bad-publickey", "sender-pubkey")
    ELSE IF VotesOutOfRange(tx)
    THEN DoS(100, "candidate-votes-out-of-range", "votes-size")
    ELSE IF GetAccount(accts, tx.txUid) = NoAccount
    THEN DoS(100, "bad-read-accountdb", "sender-account")
    ELSE IF StrongAuth(h) /\ ~VerifySignature(tx.signature, SignaturePubKey(accts, tx))
    THEN DoS(100, "bad-signature", "signature")
    ELSE CheckVotes(h, accts, tx, 1, {})

CheckTx(h, accts, tx) ==
    IF ~CheckTxFee(tx) THEN DoS(100, "bad-tx-fee", "fee")
    ELSE IF ~IsRegIdOrPubKey(tx.txUid) THEN DoS(100, "uid-type-error", "sender-uid")
    ELSE IF VotesOutOfRange(tx)
    THEN DoS(100, "candidate-votes-out-of-range", "votes-size")
    ELSE IF BadSenderPubKey(tx) THEN DoS(100, "bad-publickey", "sender-pubkey")
    ELSE IF GetAccount(accts, tx.txUid) = NoAccount
    THEN DoS(100, "bad-read-accountdb", "sender-account")
    ELSE IF StrongAuth(h) /\ ~VerifySignature(tx.signature, SignaturePubKey(accts, tx))
    THEN DoS(100, "bad-signature", "signature")
    ELSE CheckVotes(h, accts, tx, 1, {})

(***************************************************************************)
(* CheckTx statement by statement, for calls that run interleaved.  A call *)
(* in progress is its arguments, the statement it stands at (pc, and k     *)
(* inside the loop), its local voteKeyIds and its CValidationState.        *)
(***************************************************************************)
CheckTasks == {1, 2}

IdleCheck ==
    [h |-> 0, tx |-> [txUid |-> NullUid, llFees |-> 0, signature |-> NoPubKey,
                      candidateVotes |-> <<>>],
     pc |-> "idle", k |-> 0, voteKeyIds |-> {}, res |-> Accepted, overlapped |-> FALSE]

\* the call at the entry of CheckTx
EnterCheck(h, tx) ==
    [h |-> h, tx |-> tx, pc |-> "fee", k |-> 1, voteKeyIds |-> {}, res |-> Accepted,
     overlapped |-> FALSE]

Return(c, res) == [c EXCEPT !.pc = "done", !.res = res]
Goto(c, pc) == [c EXCEPT !.pc = pc]

\* the call after its next statement, on the accounts it reads
CheckTxAdvance(accts, c) ==
    CASE c.pc = "fee" ->
            IF ~CheckTxFee(c.tx) THEN Return(c, DoS(100, "bad-tx-fee", "fee"))
            ELSE Goto(c, "sender-uid")
      [] c.pc = "sender-uid" ->
            IF ~IsRegIdOrPubKey(c.tx.txUid)
            THEN Return(c, DoS(100, "uid-type-error", "sender-uid"))
            ELSE Goto(c, "votes-size")
      [] c.pc = "votes-size" ->
            IF VotesOutOfRange(c.tx)
            THEN Return(c, DoS(100, "candidate-votes-out-of-range", "votes-size"))
            ELSE Goto(c, "sender-pubkey")
      [] c.pc = "sender-pubkey" ->
            IF BadSenderPubKey(c.tx)
            THEN Return(c, DoS(100, "bad-publickey", "sender-pubkey"))
            ELSE Goto(c, "sender-account")
      [] c.pc = "sender-account" ->
            IF GetAccount(accts, c.tx.txUid) = NoAccount
            THEN Return(c, DoS(100, "bad-read-accountdb", "sender-account"))
            ELSE Goto(c, "signature")
      [] c.pc = "signature" ->
            IF StrongAuth(c.h)
               /\ ~VerifySignature(c.tx.signature, SignaturePubKey(accts, c.tx))
            THEN Return(c, DoS(100, "bad-signature", "signature"))
            ELSE Goto(c, "vote")
      [] c.pc = "vote" ->
            LET vote == c.tx.candidateVotes[c.k] IN
            IF ~IsRegIdOrPubKey(vote.candidateUid)
            THEN Return(c, DoS(100, "uid-type-error", "candidate-uid"))
            ELSE IF VoteOutOfRange(vote)
            THEN Return(c, ErrorMsg("candidate-votes"))
            ELSE IF GetAccount(accts, vote.candidateUid) = NoAccount
            THEN Return(c, DoS(100, "bad-read-accountdb", "candidate-account"))
            ELSE IF StrongAuth(c.h)
                    /\ ~HaveOwnerPubKey(accts[GetAccount(accts, vote.candidateUid)])
            THEN Return(c, DoS(100, "bad-read-accountdb", "candidate-unregistered"))
            ELSE [c EXCEPT !.voteKeyIds = @ \cup {VoteKeyId(accts, vote)},
                           !.k = @ + 1,
                           !.pc = IF c.k = Len(c.tx.candidateVotes)
                                  THEN "duplication" ELSE "vote"]
      [] c.pc = "duplication" ->
            IF Cardinality(c.voteKeyIds) # Len(c.tx.candidateVotes)
            THEN Return(c, DoS(100, "duplication-candidate-error", "duplication"))
            ELSE Return(c, Accepted)
      [] OTHER -> c

\* CheckTxStep finding the sender's account and debiting its fee at once
CheckTxStepDebiting(cw, c) ==
    LET src == GetAccount(cw.accounts, c.tx.txUid) IN
    [cw |-> IF c.pc = "sender-account" /\ src # NoAccount
                  /\ cw.accounts[src].balance >= c.tx.llFees
            THEN [cw EXCEPT !.accounts[src].balance = @ - c.tx.llFees]
            ELSE cw,
     c |-> CheckTxAdvance(cw.accounts, c)]

\* one statement of a call of CheckTx: the cache wrapper and the call after it
CheckTxStep(cw, c) == [cw |-> cw, c |-> CheckTxAdvance(cw.accounts, c)]

(***************************************************************************)
(* CDelegateVoteTx::ExecuteTx and what it calls.                           *)
(***************************************************************************)
\* the outcome of ExecuteTx: the cache wrapper as the call leaves it
ExecOk(cw) == [cw |-> cw, ok |-> TRUE, reason |-> NoReason, score |-> 0]
ExecFail(cw, score, reason) == [cw |-> cw, ok |-> FALSE, reason |-> reason, score |-> score]

\* CBaseTx::GetHash: the hash of the signed fields
GetHash(tx) == <<tx.txUid, tx.llFees, tx.candidateVotes>>

\* CBaseTx::GenerateRegID: a sender without a regid gets CRegID(height, index)
GenerateRegID(account, h, index) ==
    IF account.regid = EmptyRegId THEN [account EXCEPT !.regid = <<h, index>>]
    ELSE account

\* CAccount::OperateBalance(SYMB::WICC, SUB_FREE, value)
CanSubFree(account, value) == account.balance >= value
SubFree(account, value) == [account EXCEPT !.balance = @ - value]

\* CDelegateDBCache::GetCandidateVotes: empty when the voter has no list
GetCandidateVotes(cv, regId) == IF regId \in DOMAIN cv THEN cv[regId] ELSE <<>>

\* CDelegateDBCache::SetCandidateVotes
SetCandidateVotes(cv, regId, list) ==
    [r \in DOMAIN cv \cup {regId} |-> IF r = regId THEN list ELSE cv[r]]

\* the weight a vote list holds for a candidate key, 0 when it has no entry
VotesFor(list, key) ==
    IF \E i \in 1..Len(list) : list[i].key = key
    THEN list[CHOOSE i \in 1..Len(list) : list[i].key = key].votes
    ELSE 0

\* the list with the entry of a candidate key set to a weight; weight 0 removes it
PutVotes(list, key, votes) ==
    LET others == SelectSeq(list, LAMBDA e : e.key # key) IN
    IF votes = 0 THEN others
    ELSE IF \E i \in 1..Len(list) : list[i].key = key
         THEN [i \in 1..Len(list) |->
                 IF list[i].key = key THEN [key |-> key, votes |-> votes] ELSE list[i]]
         ELSE Append(list, [key |-> key, votes |-> votes])

\* the weight of a voter's entry after one vote
MergedVotes(existing, vote) ==
    IF vote.voteType = STAKE THEN existing + vote.votedBcoins
    ELSE IF existing >= vote.votedBcoins THEN existing - vote.votedBcoins ELSE 0

RECURSIVE MergeVotes(_, _, _, _, _)
\* the merge of the transaction's votes, from entry k, into the voter's list
MergeVotes(votesIn, k, list, rcpts, accts) ==
    IF k > Len(votesIn) THEN [ok |-> TRUE, list |-> list, receipts |-> rcpts]
    ELSE LET vote == votesIn[k]
             key == GetAccount(accts, vote.candidateUid)
             existing == VotesFor(list, key)
             merged == MergedVotes(existing, vote)
         IN IF key = NoAccount THEN [ok |-> FALSE, list |-> list, receipts |-> rcpts]
            ELSE MergeVotes(votesIn, k + 1, PutVotes(list, key, merged),
                            Append(rcpts, [account |-> key,
                                           kind |-> IF vote.voteType = STAKE
                                                    THEN "stake-credit" ELSE "stake-debit",
                                           amount |-> merged - existing]),
                            accts)

\* CAccount::ProcessDelegateVotes
ProcessDelegateVotes(votesIn, votesInOut, accts) == MergeVotes(votesIn, 1, votesInOut, <<>>, accts)

\* CAccount::StakeVoteBcoins
CanStakeVoteBcoins(account, type, votes) == type = STAKE \/ account.received_votes >= votes
StakeVoteBcoins(account, type, votes) ==
    IF type = STAKE THEN [account EXCEPT !.received_votes = @ + votes]
    ELSE [account EXCEPT !.received_votes = @ - votes]

\* CDelegateDBCache::SetDelegateVotes and EraseDelegateVotes
SetDelegateVotes(index, regId, votes) == index \cup {<<votes, regId>>}
EraseDelegateVotes(index, regId, votes) == index \ {<<votes, regId>>}

\* CTxReceiptDBCache::SetTxReceipts
SetTxReceipts(rc, hash, batch) ==
    [x \in DOMAIN rc \cup {hash} |-> IF x = hash THEN batch ELSE rc[x]]

\* The calls ExecuteTx tests the result of can return false for reasons outside
\* this function (the store, or ProcessDelegateVotes); `fail` names the call that
\* does, for candidate k inside the loop.
NoFail == [at |-> "none", k |-> 0]
Fails(fail, at, k) == fail.at = at /\ fail.k = k

RECURSIVE ExecVotes(_, _, _, _, _)
\* the loop over candidateVotes, from entry k, and the receipt write after it
ExecVotes(cw, tx, k, fail, rcpts) ==
    IF k > Len(tx.candidateVotes)
    THEN ExecOk([cw EXCEPT !.receipts = SetTxReceipts(@, GetHash(tx), rcpts)])
    ELSE LET vote == tx.candidateVotes[k]
             d == GetAccount(cw.accounts, vote.candidateUid)
         IN
         IF Fails(fail, "GetCandidate", k) \/ d = NoAccount
         THEN ExecFail(cw, 100, "bad-read-accountdb")
         ELSE LET oldVotes == cw.accounts[d].received_votes
                  delegate == StakeVoteBcoins(cw.accounts[d], vote.voteType, vote.votedBcoins)
                  cw1 == [cw EXCEPT !.delegateIndex =
                             SetDelegateVotes(@, delegate.regid, delegate.received_votes)]
                  cw2 == [cw1 EXCEPT !.delegateIndex =
                             EraseDelegateVotes(@, delegate.regid, oldVotes)]
                  cw3 == [cw2 EXCEPT !.accounts[d] = delegate]
              IN
              IF ~CanStakeVoteBcoins(cw.accounts[d], vote.voteType, vote.votedBcoins)
              THEN ExecFail(cw, 100, "operate-vote-error")
              ELSE IF Fails(fail, "SetDelegateVotes", k)
              THEN ExecFail(cw, 100, "bad-save-delegatedb")
              ELSE IF Fails(fail, "EraseDelegateVotes", k)
              THEN ExecFail(cw1, 100, "bad-save-delegatedb")
              ELSE IF Fails(fail, "SaveCandidate", k)
              THEN ExecFail(cw2, 100, "bad-save-accountdb")
              ELSE ExecVotes(cw3, tx, k + 1, fail, rcpts)

\* ExecuteTx returning at once for a transaction whose receipts are stored
ExecuteTxOnce(h, index, cw, tx, fail) ==
    LET src == GetAccount(cw.accounts, tx.txUid) IN
    IF GetHash(tx) \in DOMAIN cw.receipts THEN ExecOk(cw)
    ELSE IF Fails(fail, "GetSender", 0) \/ src = NoAccount
    THEN ExecFail(cw, 100, "bad-read-accountdb")
    ELSE LET registered == GenerateRegID(cw.accounts[src], h, index) IN
    IF ~CanSubFree(registered, tx.llFees)
    THEN ExecFail(cw, 100, "operate-account-failed")
    ELSE LET srcAccount == SubFree(registered, tx.llFees)
             regId == srcAccount.regid
             merge == ProcessDelegateVotes(tx.candidateVotes,
                                           GetCandidateVotes(cw.candVotes, regId),
                                           cw.accounts)
             cw1 == [cw EXCEPT !.candVotes = SetCandidateVotes(@, regId, merge.list)]
             cw2 == [cw1 EXCEPT !.accounts[src] = srcAccount]
         IN
         IF Fails(fail, "ProcessDelegateVotes", 0) \/ ~merge.ok
         THEN ExecFail(cw, 100, "operate-delegate-failed")
         ELSE IF Fails(fail, "SetCandidateVotes", 0)
         THEN ExecFail(cw, 100, "write-candidate-votes-failed")
         ELSE IF Fails(fail, "SaveSender", 0)
         THEN ExecFail(cw1, 100, "bad-save-accountdb")
         ELSE ExecVotes(cw2, tx, 1, fail, merge.receipts)

\* ExecuteTx with the candidate loop on the accounts as they were before the
\* sender was saved
ExecuteTxNoSenderSave(h, index, cw, tx, fail) ==
    LET src == GetAccount(cw.accounts, tx.txUid) IN
    IF Fails(fail, "GetSender", 0) \/ src = NoAccount
    THEN ExecFail(cw, 100, "bad-read-accountdb")
    ELSE LET registered == GenerateRegID(cw.accounts[src], h, index) IN
    IF ~CanSubFree(registered, tx.llFees)
    THEN ExecFail(cw, 100, "operate-account-failed")
    ELSE LET srcAccount == SubFree(registered, tx.llFees)
             regId == srcAccount.regid
             merge == ProcessDelegateVotes(tx.candidateVotes,
                                           GetCandidateVotes(cw.candVotes, regId),
                                           cw.accounts)
             cw1 == [cw EXCEPT !.candVotes = SetCandidateVotes(@, regId, merge.list)]
         IN
         IF Fails(fail, "ProcessDelegateVotes", 0) \/ ~merge.ok
         THEN ExecFail(cw, 100, "operate-delegate-failed")
         ELSE IF Fails(fail, "SetCandidateVotes", 0)
         THEN ExecFail(cw, 100, "write-candidate-votes-failed")
         ELSE IF Fails(fail, "SaveSender", 0)
         THEN ExecFail(cw1, 100, "bad-save-accountdb")
         ELSE ExecVotes(cw1, tx, 1, fail, merge.receipts)

\* ExecuteTx storing the vote list as it was read, not as merged
ExecuteTxUnmergedList(h, index, cw, tx, fail) ==
    LET src == GetAccount(cw.accounts, tx.txUid) IN
    IF Fails(fail, "GetSender", 0) \/ src = NoAccount
    THEN ExecFail(cw, 100, "bad-read-accountdb")
    ELSE LET registered == GenerateRegID(cw.accounts[src], h, index) IN
    IF ~CanSubFree(registered, tx.llFees)
    THEN ExecFail(cw, 100, "operate-account-failed")
    ELSE LET srcAccount == SubFree(registered, tx.llFees)
             regId == srcAccount.regid
             merge == ProcessDelegateVotes(tx.candidateVotes,
                                           GetCandidateVotes(cw.candVotes, regId),
                                           cw.accounts)
             cw1 == [cw EXCEPT !.candVotes =
                        SetCandidateVotes(@, regId, GetCandidateVotes(cw.candVotes, regId))]
             cw2 == [cw1 EXCEPT !.accounts[src] = srcAccount]
         IN
         IF Fails(fail, "ProcessDelegateVotes", 0) \/ ~merge.ok
         THEN ExecFail(cw, 100, "operate-delegate-failed")
         ELSE IF Fails(fail, "SetCandidateVotes", 0)
         THEN ExecFail(cw, 100, "write-candidate-votes-failed")
         ELSE IF Fails(fail, "SaveSender", 0)
         THEN ExecFail(cw1, 100, "bad-save-accountdb")
         ELSE ExecVotes(cw2, tx, 1, fail, merge.receipts)

\* ExecuteTx with every candidate account loaded before the sender is saved: a
\* sender that is a candidate is saved last from the copy loaded first
ExecuteTxStaleCandidates(h, index, cw, tx, fail) ==
    LET src == GetAccount(cw.accounts, tx.txUid) IN
    IF Fails(fail, "GetSender", 0) \/ src = NoAccount
    THEN ExecFail(cw, 100, "bad-read-accountdb")
    ELSE LET registered == GenerateRegID(cw.accounts[src], h, index) IN
    IF ~CanSubFree(registered, tx.llFees)
    THEN ExecFail(cw, 100, "operate-account-failed")
    ELSE LET srcAccount == SubFree(registered, tx.llFees)
             regId == srcAccount.regid
             merge == ProcessDelegateVotes(tx.candidateVotes,
                                           GetCandidateVotes(cw.candVotes, regId),
                                           cw.accounts)
             cw1 == [cw EXCEPT !.candVotes = SetCandidateVotes(@, regId, merge.list)]
             cw2 == [cw1 EXCEPT !.accounts[src] = srcAccount]
             stale == ExecVotes(cw1, tx, 1, fail, merge.receipts)
             selfVote == \E i \in 1..Len(tx.candidateVotes) :
                            GetAccount(cw.accounts, tx.candidateVotes[i].candidateUid) = src
         IN
         IF Fails(fail, "ProcessDelegateVotes", 0) \/ ~merge.ok
         THEN ExecFail(cw, 100, "operate-delegate-failed")
         ELSE IF Fails(fail, "SetCandidateVotes", 0)
         THEN ExecFail(cw, 100, "write-candidate-votes-failed")
         ELSE IF Fails(fail, "SaveSender", 0)
         THEN ExecFail(cw1, 100, "bad-save-accountdb")
         ELSE IF selfVote THEN stale
         ELSE ExecVotes(cw2, tx, 1, fail, merge.receipts)

\* ExecuteTx storing the receipts as soon as ProcessDelegateVotes produced them
ExecuteTxReceiptsFirst(h, index, cw, tx, fail) ==
    LET src == GetAccount(cw.accounts, tx.txUid) IN
    IF Fails(fail, "GetSender", 0) \/ src = NoAccount
    THEN ExecFail(cw, 100, "bad-read-accountdb")
    ELSE LET registered == GenerateRegID(cw.accounts[src], h, index) IN
    IF ~CanSubFree(registered, tx.llFees)
    THEN ExecFail(cw, 100, "operate-account-failed")
    ELSE LET srcAccount == SubFree(registered, tx.llFees)
             regId == srcAccount.regid
             merge == ProcessDelegateVotes(tx.candidateVotes,
                                           GetCandidateVotes(cw.candVotes, regId),
                                           cw.accounts)
             cw0 == [cw EXCEPT !.receipts = SetTxReceipts(@, GetHash(tx), merge.receipts)]
             cw1 == [cw0 EXCEPT !.candVotes = SetCandidateVotes(@, regId, merge.list)]
             cw2 == [cw1 EXCEPT !.accounts[src] = srcAccount]
         IN
         IF Fails(fail, "ProcessDelegateVotes", 0) \/ ~merge.ok
         THEN ExecFail(cw, 100, "operate-delegate-failed")
         ELSE IF Fails(fail, "SetCandidateVotes", 0)
         THEN ExecFail(cw0, 100, "write-candidate-votes-failed")
         ELSE IF Fails(fail, "SaveSender", 0)
         THEN ExecFail(cw1, 100, "bad-save-accountdb")
         ELSE ExecVotes(cw2, tx, 1, fail, merge.receipts)

ExecuteTx(h, index, cw, tx, fail) ==
    LET src == GetAccount(cw.accounts, tx.txUid) IN
    IF Fails(fail, "GetSender", 0) \/ src = NoAccount
    THEN ExecFail(cw, 100, "bad-read-accountdb")
    ELSE LET registered == GenerateRegID(cw.accounts[src], h, index) IN
    IF ~CanSubFree(registered, tx.llFees)
    THEN ExecFail(cw, 100, "operate-account-failed")
    ELSE LET srcAccount == SubFree(registered, tx.llFees)
             regId == srcAccount.regid
             merge == ProcessDelegateVotes(tx.candidateVotes,
                                           GetCandidateVotes(cw.candVotes, regId),
                                           cw.accounts)
             cw1 == [cw EXCEPT !.candVotes = SetCandidateVotes(@, regId, merge.list)]
             cw2 == [cw1 EXCEPT !.accounts[src] = srcAccount]
         IN
         IF Fails(fail, "ProcessDelegateVotes", 0) \/ ~merge.ok
         THEN ExecFail(cw, 100, "operate-delegate-failed")
         ELSE IF Fails(fail, "SetCandidateVotes", 0)
         THEN ExecFail(cw, 100, "write-candidate-votes-failed")
         ELSE IF Fails(fail, "SaveSender", 0)
         THEN ExecFail(cw1, 100, "bad-save-accountdb")
         ELSE ExecVotes(cw2, tx, 1, fail, merge.receipts)

(***************************************************************************)
(* State.                                                                  *)
(***************************************************************************)
NoTx == [txUid |-> NullUid, llFees |-> 0, signature |-> NoPubKey, candidateVotes |-> <<>>]

Ledger == [accounts |-> accounts, candVotes |-> candVotes,
           delegateIndex |-> delegateIndex, receipts |-> receipts]

\* the state as constructed: k1 registered with its owner key, k2 and k3 known by
\* their addresses only, nothing staked
Genesis ==
    [accounts |-> [k \in KeyIds |->
         [keyid |-> k,
          regid |-> IF k = "k1" THEN <<0, 1>> ELSE EmptyRegId,
          owner_pubkey |-> IF k = "k1" THEN "pk1" ELSE NoPubKey,
          balance |-> InitBalance,
          received_votes |-> 0]],
     candVotes |-> <<>>,
     delegateIndex |-> {},
     receipts |-> <<>>]

\* no call made yet on ledger state l, the next block being h
Fresh(l, h) ==
    /\ accounts = l.accounts
    /\ candVotes = l.candVotes
    /\ delegateIndex = l.delegateIndex
    /\ receipts = l.receipts
    /\ height = h
    /\ last = [op |-> "none", tx |-> NoTx, height |-> 0, res |-> Accepted, pre |-> l]
    /\ checks = [t \in CheckTasks |-> IdleCheck]

Init == Fresh(Genesis, 1)

(***************************************************************************)
(* Validation alone: the inputs CheckTx is applied to.                     *)
(***************************************************************************)
\* the state after block 1 held one vote transaction: k2 staked 1 on k1 and was
\* given the regid (1, 1)
FirstVoteTx ==
    [txUid |-> PubKeyUid("pk2"), llFees |-> MinTxFee, signature |-> "pk2",
     candidateVotes |-> <<[candidateUid |-> RegIdUid(<<0, 1>>), votedBcoins |-> 1,
                           voteType |-> STAKE]>>]
AfterFirstVote == ExecuteTx(1, 1, Genesis, FirstVoteTx, NoFail).cw

InitCheck == Fresh(Genesis, 1) \/ Fresh(AfterFirstVote, 2)

CheckUids ==
    {PubKeyUid(pk) : pk \in PubKeys}
    \cup {RegIdUid(<<0, 1>>), RegIdUid(<<1, 1>>), RegIdUid(<<9, 9>>), NullUid}

CheckVoteSet ==
    [candidateUid : CheckUids, votedBcoins : {0, 1, MaxCoinMoney + 1}, voteType : {STAKE}]

CheckVoteLists ==
    {<<>>} \cup {<<v>> : v \in CheckVoteSet}
           \cup {<<v, w>> : v \in CheckVoteSet, w \in CheckVoteSet}
           \cup {[i \in 1..(MaxVoteCandidateNum + 1) |-> v] : v \in CheckVoteSet}

CheckTxs ==
    [txUid : CheckUids, llFees : {0, 1}, signature : {"pk1", "pk2"},
     candidateVotes : CheckVoteLists]

CheckHeights == 1..(R3ForkHeight + 1)

\* one call of CheckTx on the state as constructed
CheckTxOp(h, tx) ==
    /\ last' = [op |-> "check", tx |-> tx, height |-> h,
                res |-> CheckTx(h, accounts, tx), pre |-> Ledger]
    /\ UNCHANGED <<accounts, candVotes, delegateIndex, receipts, height, checks>>

NextCheck ==
    /\ last.op = "none"
    /\ \E h \in CheckHeights, tx \in CheckTxs : CheckTxOp(h, tx)

SpecCheck == InitCheck /\ [][NextCheck]_vars

(***************************************************************************)
(* Validation in parallel: calls of CheckTx on one state, their statements *)
(* interleaved.                                                            *)
(***************************************************************************)
ParallelSenders == {PubKeyUid("pk1"), RegIdUid(<<1, 1>>)}

ParallelVoteSet ==
    [candidateUid : {PubKeyUid("pk1"), RegIdUid(<<0, 1>>)},
     votedBcoins : {1}, voteType : {STAKE}]
    \cup {[candidateUid |-> PubKeyUid("pk2"), votedBcoins |-> 0, voteType |-> STAKE]}

ParallelTxs ==
    [txUid : ParallelSenders, llFees : {MinTxFee}, signature : {"pk1"},
     candidateVotes : {<<>>} \cup {<<v>> : v \in ParallelVoteSet}
                             \cup {<<v, w>> : v \in ParallelVoteSet, w \in ParallelVoteSet}]

ParallelHeights == {R2ForkHeight}

InFlight(c) == c.pc \notin {"idle", "done"}

\* a validation task calls CheckTx
StartCheck(t, h, tx) ==
    /\ checks[t].pc = "idle"
    /\ checks' = [checks EXCEPT ![t] = EnterCheck(h, tx)]
    /\ UNCHANGED <<accounts, candVotes, delegateIndex, receipts, height, last>>

\* a call in progress executes its next statement
StepCheck(t) ==
    /\ InFlight(checks[t])
    /\ LET r == CheckTxStep(Ledger, checks[t]) IN
       /\ accounts' = r.cw.accounts
       /\ candVotes' = r.cw.candVotes
       /\ delegateIndex' = r.cw.delegateIndex
       /\ receipts' = r.cw.receipts
       /\ checks' = [checks EXCEPT
              ![t] = [r.c EXCEPT !.overlapped =
                         @ \/ \E u \in CheckTasks \ {t} : InFlight(checks[u])]]
    /\ UNCHANGED <<height, last>>

NextParallel ==
    \/ \E t \in CheckTasks, h \in ParallelHeights, tx \in ParallelTxs : StartCheck(t, h, tx)
    \/ \E t \in CheckTasks : StepCheck(t)

SpecParallel == InitCheck /\ [][NextParallel]_vars

(***************************************************************************)
(* Block application: one checked vote transaction executed per block.     *)
(***************************************************************************)
\* every account under one identifier: k1 by its regid, k2 and k3, which have
\* none, by their public keys; a sender signs with its own key
ExecSenders ==
    {<<RegIdUid(<<0, 1>>), "pk1">>, <<PubKeyUid("pk2"), "pk2">>,
     <<PubKeyUid("pk3"), "pk3">>}

ExecCandidates == {RegIdUid(<<0, 1>>), PubKeyUid("pk2"), PubKeyUid("pk3")}

ExecVoteSet ==
    [candidateUid : ExecCandidates, votedBcoins : {1, 2}, voteType : {STAKE, UNSTAKE}]

ExecVoteLists ==
    {<<v>> : v \in ExecVoteSet} \cup {<<v, w>> : v \in ExecVoteSet, w \in ExecVoteSet}

ExecTxs ==
    {[txUid |-> s[1], llFees |-> MinTxFee, signature |-> s[2], candidateVotes |-> l] :
        s \in ExecSenders, l \in ExecVoteLists}

\* the store calls of ExecuteTx that can fail on a transaction with n votes
FailPoints(n) ==
    {NoFail}
    \cup [at : {"GetSender", "ProcessDelegateVotes", "SetCandidateVotes", "SaveSender"},
          k : {0}]
    \cup [at : {"GetCandidate", "SetDelegateVotes", "EraseDelegateVotes", "SaveCandidate"},
          k : 1..n]

\* the state ExecuteTx leaves, and the record of the call
Applied(tx, fail, r) ==
    /\ accounts' = r.cw.accounts
    /\ candVotes' = r.cw.candVotes
    /\ delegateIndex' = r.cw.delegateIndex
    /\ receipts' = r.cw.receipts
    /\ last' = [op |-> "execute", tx |-> tx, height |-> height,
                res |-> [ok |-> r.ok, reason |-> r.reason, score |-> r.score,
                         at |-> fail.at],
                pre |-> Ledger]
    /\ height' = height + 1
    /\ UNCHANGED checks

\* ExecuteTx on a transaction CheckTx accepts, at index 1 of the block at `height`
ExecuteTxOp(tx) ==
    /\ CheckTx(height, accounts, tx).ok
    /\ \E fail \in FailPoints(Len(tx.candidateVotes)) :
          Applied(tx, fail, ExecuteTx(height, 1, Ledger, tx, fail))

\* block application stops at the first transaction that fails
Next ==
    /\ height <= MaxHeight
    /\ last.res.ok
    /\ \E tx \in ExecTxs : ExecuteTxOp(tx)

Spec == Init /\ [][Next]_vars

(***************************************************************************)
(* One transaction executed twice in succession, in two blocks.            *)
(***************************************************************************)
\* ExecuteTx a second time on the transaction just executed; the record keeps the
\* state before the first call
ExecuteTxAgain ==
    /\ last.op = "execute"
    /\ last.res.ok
    /\ CheckTx(height, accounts, last.tx).ok
    /\ \E fail \in FailPoints(Len(last.tx.candidateVotes)) :
          LET r == ExecuteTx(height, 1, Ledger, last.tx, fail) IN
          /\ accounts' = r.cw.accounts
          /\ candVotes' = r.cw.candVotes
          /\ delegateIndex' = r.cw.delegateIndex
          /\ receipts' = r.cw.receipts
          /\ last' = [op |-> "execute-again", tx |-> last.tx, height |-> height,
                      res |-> [ok |-> r.ok, reason |-> r.reason, score |-> r.score,
                               at |-> fail.at],
                      pre |-> last.pre]
          /\ height' = height + 1
          /\ UNCHANGED checks

NextRepeat ==
    \/ /\ last.op = "none"
       /\ \E tx \in ExecTxs : ExecuteTxOp(tx)
    \/ ExecuteTxAgain

SpecRepeat == InitCheck /\ [][NextRepeat]_vars

(***************************************************************************)
(* Properties.                                                             *)
(***************************************************************************)
Executed == last.op = "execute"
Checked == last.op = "check"
Votes == last.tx.candidateVotes

RECURSIVE SumStaked(_, _, _)
\* the weight the vote lists of the voters in `voters` hold for a candidate key
SumStaked(cv, voters, key) ==
    IF voters = {} THEN 0
    ELSE LET r == CHOOSE x \in voters : TRUE IN
         VotesFor(cv[r], key) + SumStaked(cv, voters \ {r}, key)

RECURSIVE SumAmounts(_, _)
\* the sum of the amounts of the first n receipts of a batch
SumAmounts(batch, n) == IF n = 0 THEN 0 ELSE batch[n].amount + SumAmounts(batch, n - 1)

RECURSIVE SumReceivedDelta(_)
\* post-weight minus pre-weight, summed over the candidates of the first n votes
SumReceivedDelta(n) ==
    IF n = 0 THEN 0
    ELSE LET c == GetAccount(accounts, Votes[n].candidateUid) IN
         accounts[c].received_votes - last.pre.accounts[c].received_votes
           + SumReceivedDelta(n - 1)

\* C1: after a sequence of successful executions of checked transactions, every
\* account's received_votes is the sum of the weights all voters' persisted vote
\* lists hold for it.
C1_ReceivedVotesEqualStakedSum ==
    last.res.ok =>
        \A k \in KeyIds :
            accounts[k].received_votes = SumStaked(candVotes, DOMAIN candVotes, k)

\* C2: a failed execution leaves the accounts, the vote lists, the delegate index
\* and the receipts as they were before the call.
C2_FailedExecuteWritesNothing ==
    (Executed /\ ~last.res.ok) => Ledger = last.pre

\* the weight the sender had staked on the candidate of a vote before the call
SenderStakeBefore(vote) ==
    LET src == GetAccount(last.pre.accounts, last.tx.txUid) IN
    VotesFor(GetCandidateVotes(last.pre.candVotes, last.pre.accounts[src].regid),
             GetAccount(last.pre.accounts, vote.candidateUid))

OverUnstake ==
    \E i \in 1..Len(Votes) :
        Votes[i].voteType = UNSTAKE /\ Votes[i].votedBcoins > SenderStakeBefore(Votes[i])

\* C3: a transaction with an Unstake of more than the sender has staked on that
\* candidate fails with operate-vote-error, whatever other voters staked there
\* (no store call failing, the fee covered).
C3_OverUnstakeIsOperateVoteError ==
    (Executed /\ last.res.at = "none" /\ OverUnstake
       /\ last.pre.accounts[GetAccount(last.pre.accounts, last.tx.txUid)].balance
            >= last.tx.llFees)
    => (~last.res.ok /\ last.res.reason = "operate-vote-error")

\* C4: after a successful execution the delegate index holds, for every candidate
\* of the transaction, no entry under its weight before and one under its weight
\* after.
C4_IndexReKeyedForEveryCandidate ==
    (Executed /\ last.res.ok) =>
        \A i \in 1..Len(Votes) :
            LET c == GetAccount(accounts, Votes[i].candidateUid) IN
            /\ <<last.pre.accounts[c].received_votes, accounts[c].regid>> \notin delegateIndex
            /\ <<accounts[c].received_votes, accounts[c].regid>> \in delegateIndex

\* C5: after a successful execution the stake deltas of the stored receipts sum to
\* the net change of the candidates' received_votes.
C5_ReceiptDeltasEqualWeightChange ==
    (Executed /\ last.res.ok) =>
        LET batch == receipts[GetHash(last.tx)] IN
        SumAmounts(batch, Len(batch)) = SumReceivedDelta(Len(Votes))

\* two entries of the candidate list resolve to the same account
HasDuplicate(accts, tx) ==
    \E i, j \in 1..Len(tx.candidateVotes) :
        /\ i < j
        /\ GetAccount(accts, tx.candidateVotes[i].candidateUid) # NoAccount
        /\ GetAccount(accts, tx.candidateVotes[i].candidateUid)
             = GetAccount(accts, tx.candidateVotes[j].candidateUid)

\* what the loop of CheckTx finds wrong with one entry, "none" when nothing
EntryFailure(h, accts, vote) ==
    IF ~IsRegIdOrPubKey(vote.candidateUid) THEN "candidate-uid"
    ELSE IF VoteOutOfRange(vote) THEN "candidate-votes"
    ELSE IF GetAccount(accts, vote.candidateUid) = NoAccount THEN "candidate-account"
    ELSE IF StrongAuth(h) /\ ~HaveOwnerPubKey(accts[GetAccount(accts, vote.candidateUid)])
    THEN "candidate-unregistered"
    ELSE "none"

\* the checks on the sender and the list, by name
FailsCheck(name, h, accts, tx) ==
    CASE name = "fee" -> ~CheckTxFee(tx)
      [] name = "sender-uid" -> ~IsRegIdOrPubKey(tx.txUid)
      [] name = "votes-size" -> VotesOutOfRange(tx)
      [] name = "sender-pubkey" -> BadSenderPubKey(tx)
      [] name = "sender-account" -> GetAccount(accts, tx.txUid) = NoAccount
      [] name = "signature" ->
            /\ StrongAuth(h)
            /\ GetAccount(accts, tx.txUid) # NoAccount
            /\ ~VerifySignature(tx.signature, SignaturePubKey(accts, tx))

\* the first check of an order that fails; then the first entry with a failure;
\* then the duplication test
FirstFailing(order, h, accts, tx) ==
    IF \E n \in 1..Len(order) : FailsCheck(order[n], h, accts, tx)
    THEN order[CHOOSE n \in 1..Len(order) :
                 /\ FailsCheck(order[n], h, accts, tx)
                 /\ \A m \in 1..(n - 1) : ~FailsCheck(order[m], h, accts, tx)]
    ELSE IF \E k \in 1..Len(tx.candidateVotes) :
               EntryFailure(h, accts, tx.candidateVotes[k]) # "none"
    THEN EntryFailure(h, accts,
           tx.candidateVotes[CHOOSE k \in 1..Len(tx.candidateVotes) :
              /\ EntryFailure(h, accts, tx.candidateVotes[k]) # "none"
              /\ \A m \in 1..(k - 1) : EntryFailure(h, accts, tx.candidateVotes[m]) = "none"])
    ELSE IF HasDuplicate(accts, tx) THEN "duplication"
    ELSE "accepted"

\* the reason each check reports
ReasonOf(at) ==
    CASE at = "fee" -> "bad-tx-fee"
      [] at \in {"sender-uid", "candidate-uid"} -> "uid-type-error"
      [] at = "votes-size" -> "candidate-votes-out-of-range"
      [] at = "sender-pubkey" -> "bad-publickey"
      [] at \in {"sender-account", "candidate-account", "candidate-unregistered"} ->
            "bad-read-accountdb"
      [] at = "signature" -> "bad-signature"
      [] at = "duplication" -> "duplication-candidate-error"
      [] OTHER -> NoReason

\* the order of section 4.1 of the specification, and the order of the code
DocumentedOrder ==
    <<"fee", "sender-uid", "sender-pubkey", "votes-size", "sender-account", "signature">>
CodeOrder ==
    <<"fee", "sender-uid", "votes-size", "sender-pubkey", "sender-account", "signature">>

\* C6 as stated: a list with two entries resolving to the same account is rejected
\* with duplication-candidate-error.
C6_DuplicateAlwaysDuplicationError ==
    (Checked /\ HasDuplicate(last.pre.accounts, last.tx))
    => (~last.res.ok /\ last.res.reason = "duplication-candidate-error")

\* C6 amended: such a list is always rejected, and with
\* duplication-candidate-error whenever no earlier check fails.
C6_DuplicateRejected ==
    (Checked /\ HasDuplicate(last.pre.accounts, last.tx))
    => /\ ~last.res.ok
       /\ FirstFailing(CodeOrder, last.height, last.pre.accounts, last.tx) = "duplication"
            => last.res = DoS(100, "duplication-candidate-error", "duplication")

\* C6 witness: the public key and the registered id of one account, in one list,
\* rejected as a duplication.
C6_Witness ==
    /\ Checked
    /\ Len(Votes) = 2
    /\ Votes[1].candidateUid = PubKeyUid("pk1")
    /\ Votes[2].candidateUid = RegIdUid(<<0, 1>>)
    /\ last.res.reason = "duplication-candidate-error"

\* C7 as stated: the reason returned is that of the first failing check in the
\* documented order (sender key validity before the list size).
C7_DocumentedOrderDecides ==
    (Checked /\ \E n \in 1..Len(DocumentedOrder) :
                   FailsCheck(DocumentedOrder[n], last.height, last.pre.accounts, last.tx))
    => last.res.reason
         = ReasonOf(FirstFailing(DocumentedOrder, last.height, last.pre.accounts, last.tx))

\* C7 amended: CheckTx returns at the first failing check in the order fee, sender
\* identifier kind, list size, sender key validity, sender account, signature
\* (at MAJOR_VER_R2), the entries one by one, duplication; with that check's
\* reason and score 100, except the weight check, which records neither.
C7_CodeOrderDecides ==
    Checked =>
        LET at == FirstFailing(CodeOrder, last.height, last.pre.accounts, last.tx) IN
        /\ last.res.at = at
        /\ last.res.ok = (at = "accepted")
        /\ last.res.reason = ReasonOf(at)
        /\ last.res.score = IF at \in {"accepted", "candidate-votes"} THEN 0 ELSE 100

\* C7 witness: an invalid sender key with an empty list, rejected for the list.
C7_Witness ==
    /\ Checked
    /\ BadSenderPubKey(last.tx)
    /\ Votes = <<>>
    /\ last.res.reason = "candidate-votes-out-of-range"

\* C8: every rejection of CheckTx records a reason code and the score 100.
C8_RejectionHasReasonAndScore ==
    (Checked /\ ~last.res.ok) => (last.res.reason # NoReason /\ last.res.score = 100)

\* the rejection reason codes of the external interface
StableReasonCodes ==
    {"candidate-votes-out-of-range", "bad-publickey", "bad-read-accountdb",
     "duplication-candidate-error", "operate-account-failed",
     "write-candidate-votes-failed", "operate-vote-error", "bad-save-accountdb",
     "bad-save-delegatedb"}

\* C9: every failure of ExecuteTx reports one of the stable reason codes.
C9_ExecuteFailureCodeIsStable ==
    (Executed /\ ~last.res.ok) => last.res.reason \in StableReasonCodes

\* the sender resolves and the signature does not verify against its key
BadSignature(accts, tx) ==
    /\ IsRegIdOrPubKey(tx.txUid)
    /\ GetAccount(accts, tx.txUid) # NoAccount
    /\ ~VerifySignature(tx.signature, SignaturePubKey(accts, tx))

\* a candidate of the list has an account without an owner public key
UnregisteredCandidate(accts, tx) ==
    \E i \in 1..Len(tx.candidateVotes) :
        /\ GetAccount(accts, tx.candidateVotes[i].candidateUid) # NoAccount
        /\ ~HaveOwnerPubKey(accts[GetAccount(accts, tx.candidateVotes[i].candidateUid)])

\* C10: at a height whose version is MAJOR_VER_R2 or later, CheckTx accepts no
\* transaction with a signature that does not verify, and none that names a
\* candidate without an owner public key.
C10_StrongAuthFromR2On ==
    (Checked /\ GetFeatureForkVersion(last.height) >= MAJOR_VER_R2)
    => /\ BadSignature(last.pre.accounts, last.tx) => ~last.res.ok
       /\ UnregisteredCandidate(last.pre.accounts, last.tx) => ~last.res.ok

\* C11: a call of CheckTx changes neither the accounts, the vote lists, the
\* delegate index nor the receipts, whatever it returns; and calls whose
\* statements interleave each return what CheckTx returns alone on that state.
C11_CheckTxWritesNothing ==
    /\ Ledger = last.pre
    /\ \A t \in CheckTasks :
          checks[t].pc = "done"
          => checks[t].res = CheckTx(checks[t].h, accounts, checks[t].tx)

\* C11 witness: two calls on different transactions that overlapped, one
\* accepted and one rejected.
C11_Witness ==
    /\ checks[1].pc = "done" /\ checks[2].pc = "done"
    /\ checks[1].overlapped /\ checks[2].overlapped
    /\ checks[1].tx # checks[2].tx
    /\ checks[1].res.ok /\ ~checks[2].res.ok

\* C12: the same transaction with one Stake vote of weight w on candidate D and
\* fee f, executed twice in succession with success, leaves D's received_votes
\* 2w higher, the sender's vote list entry for D 2w higher and the sender's
\* balance 2f lower than before the first call.
C12_StakeTwiceIsCumulative ==
    (last.op = "execute-again" /\ last.res.ok
       /\ Len(Votes) = 1 /\ Votes[1].voteType = STAKE)
    => LET src == GetAccount(accounts, last.tx.txUid)
           d == GetAccount(accounts, Votes[1].candidateUid)
           w == Votes[1].votedBcoins
       IN /\ accounts[d].received_votes = last.pre.accounts[d].received_votes + 2 * w
          /\ VotesFor(GetCandidateVotes(candVotes, accounts[src].regid), d)
               = SenderStakeBefore(Votes[1]) + 2 * w
          /\ accounts[src].balance = last.pre.accounts[src].balance - 2 * last.tx.llFees

\* C12 witness: k3, not yet registered, staked 2 on k1 twice.
C12_Witness ==
    /\ last.op = "execute-again" /\ last.res.ok
    /\ last.tx.txUid = PubKeyUid("pk3")
    /\ Votes = <<[candidateUid |-> RegIdUid(<<0, 1>>), votedBcoins |-> 2,
                  voteType |-> STAKE]>>
    /\ accounts["k1"].received_votes = last.pre.accounts["k1"].received_votes + 4

\* the sender's account key, and the fee, of the last transaction
Sender == GetAccount(last.pre.accounts, last.tx.txUid)
SelfVote == \E i \in 1..Len(Votes) : GetAccount(last.pre.accounts, Votes[i].candidateUid) = Sender

\* C13: after a successful execution the sender's stored free balance is its
\* balance before the call less the fee, once; also when the sender is one of
\* the candidates.
C13_FeeDebitedOnce ==
    (Executed /\ last.res.ok)
    => accounts[Sender].balance = last.pre.accounts[Sender].balance - last.tx.llFees

\* C13 witness: k2 staked on itself and paid the fee.
C13_Witness ==
    /\ Executed /\ last.res.ok
    /\ last.tx.txUid = PubKeyUid("pk2")
    /\ \E i \in 1..Len(Votes) : Votes[i].candidateUid = PubKeyUid("pk2")
    /\ last.tx.llFees > 0
    /\ accounts["k2"].balance = last.pre.accounts["k2"].balance - last.tx.llFees

\* C14: after a successful execution of a transaction with n votes the batch
\* stored under its hash is one fee-debit receipt for the fee and one stake
\* receipt per vote, n + 1 receipts.
C14_BatchIsFeeReceiptPlusOnePerVote ==
    (Executed /\ last.res.ok)
    => LET batch == receipts[GetHash(last.tx)] IN
       /\ Len(batch) = Len(Votes) + 1
       /\ Cardinality({i \in 1..Len(batch) :
                          batch[i].kind = "fee-debit" /\ batch[i].amount = last.tx.llFees}) = 1
       /\ Cardinality({i \in 1..Len(batch) :
                          batch[i].kind \in {"stake-credit", "stake-debit"}}) = Len(Votes)

\* C15 as stated: a list of length 0 or above MaxVoteCandidateNum is rejected with
\* candidate-votes-out-of-range.
C15_OutOfRangeAlwaysThatReason ==
    (Checked /\ (Len(Votes) = 0 \/ Len(Votes) > MaxVoteCandidateNum))
    => (~last.res.ok /\ last.res.reason = "candidate-votes-out-of-range")

\* C15 amended: such a list is always rejected, and with
\* candidate-votes-out-of-range and score 100 whenever the fee check and the
\* check of the sender identifier's kind pass, the sender's key valid or not.
C15_OutOfRangeRejected ==
    (Checked /\ (Len(Votes) = 0 \/ Len(Votes) > MaxVoteCandidateNum))
    => /\ ~last.res.ok
       /\ (CheckTxFee(last.tx) /\ IsRegIdOrPubKey(last.tx.txUid))
            => last.res = DoS(100, "candidate-votes-out-of-range", "votes-size")

\* C15 witness: a list one longer than MaxVoteCandidateNum, rejected for its size.
C15_Witness ==
    /\ Checked
    /\ Len(Votes) = MaxVoteCandidateNum + 1
    /\ last.res = DoS(100, "candidate-votes-out-of-range", "votes-size")

\* C16: a transaction with a vote of weight w <= 0 or w > MaxCoinMoney, at any
\* position of the list, is not accepted.
C16_BadWeightNeverAccepted ==
    (Checked /\ \E i \in 1..Len(Votes) :
                   Votes[i].votedBcoins <= 0 \/ Votes[i].votedBcoins > MaxCoinMoney)
    => ~last.res.ok

\* C16 witness: the second of two votes has weight 0 and the loop rejects there.
C16_Witness ==
    /\ Checked
    /\ Len(Votes) = 2
    /\ Votes[1].votedBcoins = 1 /\ Votes[2].votedBcoins = 0
    /\ ~last.res.ok /\ last.res.at = "candidate-votes"

\* a vote list has one entry per key at most and none of weight 0
WellFormedList(list) ==
    /\ \A i, j \in 1..Len(list) : list[i].key = list[j].key => i = j
    /\ \A i \in 1..Len(list) : list[i].votes > 0

\* the weight the claim gives the sender's entry for a key after the last call
WeightAfter(key) ==
    LET old == VotesFor(GetCandidateVotes(last.pre.candVotes,
                                          last.pre.accounts[Sender].regid), key)
        on == {i \in 1..Len(Votes) : GetAccount(last.pre.accounts, Votes[i].candidateUid) = key}
    IN IF on = {} THEN old
       ELSE LET v == Votes[CHOOSE i \in on : TRUE] IN
            IF v.voteType = STAKE THEN old + v.votedBcoins
            ELSE IF old - v.votedBcoins > 0 THEN old - v.votedBcoins ELSE 0

\* C17: after successful executions every stored vote list has one entry per
\* candidate key at most and none of weight 0; the last execution added the
\* weight of a Stake to the sender's entry, lowered it by that of an Unstake
\* but not below 0, and left the other entries and the other lists alone.
C17_VoteListsMerged ==
    last.res.ok
    => /\ \A r \in DOMAIN candVotes : WellFormedList(candVotes[r])
       /\ Executed =>
            /\ \A key \in KeyIds :
                  VotesFor(candVotes[accounts[Sender].regid], key) = WeightAfter(key)
            /\ \A r \in DOMAIN last.pre.candVotes :
                  r # accounts[Sender].regid => candVotes[r] = last.pre.candVotes[r]

\* C17 witness: an Unstake took the sender's entry to 0 and the entry is gone.
C17_Witness ==
    /\ Executed /\ last.res.ok
    /\ \E i \in 1..Len(Votes) :
          /\ Votes[i].voteType = UNSTAKE
          /\ SenderStakeBefore(Votes[i]) > 0
          /\ WeightAfter(GetAccount(accounts, Votes[i].candidateUid)) = 0
          /\ \A e \in 1..Len(candVotes[accounts[Sender].regid]) :
                candVotes[accounts[Sender].regid][e].key
                  # GetAccount(accounts, Votes[i].candidateUid)

\* C18: after a successful execution of a transaction whose sender is one of
\* its candidates, the sender's one account record has the fee debited, the
\* regid it had or was assigned by this call, and received_votes changed by
\* the vote on it.
C18_SelfVoteKeepsSenderUpdate ==
    (Executed /\ last.res.ok /\ SelfVote)
    => LET v == Votes[CHOOSE i \in 1..Len(Votes) :
                        GetAccount(last.pre.accounts, Votes[i].candidateUid) = Sender]
           before == last.pre.accounts[Sender]
       IN /\ accounts[Sender].balance = before.balance - last.tx.llFees
          /\ accounts[Sender].regid
               = IF before.regid = EmptyRegId THEN <<last.height, 1>> ELSE before.regid
          /\ accounts[Sender].received_votes
               = IF v.voteType = STAKE THEN before.received_votes + v.votedBcoins
                 ELSE before.received_votes - v.votedBcoins

\* C18 witness: k3, without a regid, staked 2 on itself: registered, fee paid,
\* votes received.
C18_Witness ==
    /\ Executed /\ last.res.ok
    /\ last.tx.txUid = PubKeyUid("pk3")
    /\ last.pre.accounts["k3"].regid = EmptyRegId
    /\ \E i \in 1..Len(Votes) :
          Votes[i] = [candidateUid |-> PubKeyUid("pk3"), votedBcoins |-> 2, voteType |-> STAKE]
    /\ accounts["k3"].regid # EmptyRegId
    /\ accounts["k3"].received_votes = last.pre.accounts["k3"].received_votes + 2

\* the batch ProcessDelegateVotes produces in the last call
BatchProduced ==
    LET regId == GenerateRegID(last.pre.accounts[Sender], last.height, 1).regid IN
    ProcessDelegateVotes(Votes, GetCandidateVotes(last.pre.candVotes, regId),
                         last.pre.accounts).receipts

\* C19: a failed execution, at whatever step, leaves the stored receipts as they
\* were; a successful one stores under the transaction's hash the batch of that
\* call and nothing else.
C19_ReceiptsWrittenLastOnly ==
    Executed
    => IF last.res.ok
       THEN receipts = SetTxReceipts(last.pre.receipts, GetHash(last.tx), BatchProduced)
       ELSE receipts = last.pre.receipts

\* C19 witness: the save of the second candidate failed after accounts and index
\* were written; the receipts are untouched.
C19_Witness ==
    /\ Executed /\ ~last.res.ok
    /\ last.res.at = "SaveCandidate"
    /\ accounts # last.pre.accounts
    /\ delegateIndex # last.pre.delegateIndex
    /\ receipts = last.pre.receipts

====
